---- MODULE Spec2Model ----
(***************************************************************************)
(* The MCP gateway of src/mcp_platform/server.py: a ThreadingHTTPServer    *)
(* whose handler threads route a request, check the X-MCP-Key header,      *)
(* call the customer API, fall back to the sample data when the call       *)
(* raises URLError, emit the JSON response and record it in REQUEST_LOG.   *)
(*                                                                         *)
(* Python values are modelled as follows.  A str | None value is a record  *)
(* [type, value] with type "str" or "None"; a decoded JSON body is a       *)
(* record [type, order_id] (see json_loads); a dict payload is a TLA+      *)
(* record with the dict's keys; a decoded payload that is not a dict is    *)
(* the record NonDict.  Times are whole seconds (strftime's precision).    *)
(***************************************************************************)
EXTENDS Integers, Sequences, FiniteSets, TLC

\* Handler threads that may exist at the same time.
MaxThreads == 2
\* Requests one client sends, one after the other (specification Spec).
MaxRequests == 1
\* Seconds the wall clock may advance.
MaxClock == 1
MaxCalls == 2

Threads == 1..MaxThreads

----------------------------------------------------------------------------
\* Python values.

PyNone == [type |-> "None", value |-> ""]
PyStr(s) == [type |-> "str", value |-> s]
PyInt(s) == [type |-> "int", value |-> s]
\* Python truthiness of a str | None value: None and "" are falsy.
Truthy(v) == v.type = "str" /\ v.value # ""
\* A decoded JSON value that is not a dict (list, str, int, None).
NonDict == [py_type |-> "nondict"]
IsDict(p) == "py_type" \notin DOMAIN p
\* dict.get(key, default)
DictGet(p, key, default) == IF key \in DOMAIN p THEN p[key] ELSE default
\* The metadata argument when it is None.
NoMetadata == [absent |-> TRUE]

----------------------------------------------------------------------------
\* src/customer_api/data.py: the sample data (the fallback catalog).

Order(id, st, total) == [order_id |-> id, status |-> st, total |-> total, currency |-> "CNY"]

SAMPLE_ORDERS ==
    << Order("A1001", "processing", "512.43"),
       Order("A1002", "shipped", "79.99"),
       Order("A1003", "ready_for_pickup", "1499.0") >>

\* list_orders_payload with the first order lost
list_orders_payload_tail(now) == [generated_at |-> now, orders |-> Tail(SAMPLE_ORDERS)]

list_orders_payload(now) == [generated_at |-> now, orders |-> SAMPLE_ORDERS]

RECURSIVE FirstMatch(_, _, _)
\* the for loop of get_order_payload and of _order: first order with the id
FirstMatch(orders, order_id, i) ==
    IF i > Len(orders) THEN NonDict
    ELSE IF orders[i].order_id = order_id THEN orders[i]
    ELSE FirstMatch(orders, order_id, i + 1)

\* get_order_payload whose loop misses the first order
get_order_payload_from_second(order_id) == FirstMatch(SAMPLE_ORDERS, order_id, 2)

\* None is modelled by NonDict (the caller only tests `is None`).
get_order_payload(order_id) == FirstMatch(SAMPLE_ORDERS, order_id, 1)

----------------------------------------------------------------------------
\* src/customer_api/server.py: the customer API (the upstream).

UPSTREAM_ORDERS ==
    << Order("A1001", "processing", "512.43"),
       Order("A1002", "shipped", "79.99") >>

HTTP_OK == 200
HTTP_NO_CONTENT == 204
HTTP_BAD_REQUEST == 400
HTTP_UNAUTHORIZED == 401
HTTP_NOT_FOUND == 404

\* application(): the status and JSON body for a request path of the API.
application(order_id, now) ==
    IF ~Truthy(order_id)
    THEN [status |-> HTTP_OK,
          payload |-> [generated_at |-> now, orders |-> UPSTREAM_ORDERS]]
    ELSE LET order == FirstMatch(UPSTREAM_ORDERS, order_id.value, 1)
         IN  IF IsDict(order)
             THEN [status |-> HTTP_OK, payload |-> order]
             ELSE [status |-> HTTP_NOT_FOUND,
                   payload |-> [error |-> "not_found",
                                message |-> "The resource does not exist in the customer API."]]

----------------------------------------------------------------------------
\* src/mcp_platform/server.py: configuration and pure helpers.

CUSTOMER_API_BASE == "http://127.0.0.1:8001"
\* The value of MCP_API_KEY when the deployment sets one.
SECRET == "s3cret"
\* os.environ.get("MCP_API_KEY"): unset, empty or set.
EnvKeys == {PyNone, PyStr(""), PyStr(SECRET)}

\* _expected_api_key without `or None`: an empty MCP_API_KEY is a secret
expected_api_key_raw(env) == env

\* `key or None`
expected_api_key(env) == IF Truthy(env) THEN env ELSE PyNone

\* _fallback_from_sample answering an unknown order_id with the listing
fallback_ignores_miss(order_id, now) ==
    IF Truthy(order_id) /\ IsDict(get_order_payload(order_id.value))
    THEN [status |-> HTTP_OK, payload |-> get_order_payload(order_id.value)]
    ELSE [status |-> HTTP_OK, payload |-> list_orders_payload(now)]

\* _fallback_from_sample testing `order_id is not None` for `order_id`
fallback_from_sample_is_not_none(order_id, now) ==
    IF order_id # PyNone
    THEN LET order == get_order_payload(order_id.value)
         IN  IF ~IsDict(order)
             THEN [status |-> HTTP_NOT_FOUND,
                   payload |-> [error |-> "not_found",
                                message |-> "Order " \o order_id.value
                                            \o " was not found in sample data."]]
             ELSE [status |-> HTTP_OK, payload |-> order]
    ELSE [status |-> HTTP_OK, payload |-> list_orders_payload(now)]

fallback_from_sample(order_id, now) ==
    IF Truthy(order_id)
    THEN LET order == get_order_payload(order_id.value)
         IN  IF ~IsDict(order)
             THEN [status |-> HTTP_NOT_FOUND,
                   payload |-> [error |-> "not_found",
                                message |-> "Order " \o order_id.value
                                            \o " was not found in sample data."]]
             ELSE [status |-> HTTP_OK, payload |-> order]
    ELSE [status |-> HTTP_OK, payload |-> list_orders_payload(now)]

\* What the customer API does with one call of the gateway.
\*   healthy           answers as application() does
\*   error_json        503, a JSON object with error and message
\*   error_plain       500, a JSON object without error and message
\*   error_text        502, a body that is not JSON
\*   error_list        500, a JSON array
\*   garbage           200, a body that is not JSON
\*   refused           the connection is refused
\*   connect_timeout   the connection is not established within the timeout
\*   response_timeout  connected, no response within the timeout
\*   read_timeout      200 and headers arrive, the body does not within the timeout
Replying == {"healthy", "error_json", "error_plain", "error_text", "error_list",
             "garbage", "read_timeout"}
NotConnecting == {"refused", "connect_timeout"}
Conditions == Replying \cup NotConnecting \cup {"response_timeout"}

\* The HTTP response of the customer API: status and body; the body is
\* [arrives, is_json, json]: whether read() returns, whether json.loads
\* accepts the text, and the decoded value.
Body(arrives, is_json, json) == [arrives |-> arrives, is_json |-> is_json, json |-> json]

UpstreamReply(cond, order_id, now) ==
    CASE cond = "healthy" ->
           LET a == application(order_id, now)
           IN  [status |-> a.status, body |-> Body(TRUE, TRUE, a.payload)]
      [] cond = "error_json" ->
           [status |-> 503,
            body |-> Body(TRUE, TRUE, [error |-> "maintenance",
                                       message |-> "Down for maintenance."])]
      [] cond = "error_plain" ->
           [status |-> 500, body |-> Body(TRUE, TRUE, [detail |-> "boom"])]
      [] cond = "error_text" ->
           [status |-> 502, body |-> Body(TRUE, FALSE, NonDict)]
      [] cond = "error_list" ->
           [status |-> 500, body |-> Body(TRUE, TRUE, NonDict)]
      [] cond = "garbage" ->
           [status |-> HTTP_OK, body |-> Body(TRUE, FALSE, NonDict)]
      [] cond = "read_timeout" ->
           [status |-> HTTP_OK, body |-> Body(FALSE, TRUE, NonDict)]

\* urllib.request.urlopen(request, timeout=5): returns the response for a
\* 2xx status, raises HTTPError for another status, URLError when the
\* connection cannot be made (do_open wraps the OSError of h.request), and
\* lets the timeout of h.getresponse() through as TimeoutError.
urlopen(cond, order_id, now) ==
    CASE cond = "refused" ->
           [raises |-> "URLError", reason |-> "[Errno 111] Connection refused"]
      [] cond = "connect_timeout" ->
           [raises |-> "URLError", reason |-> "timed out"]
      [] cond = "response_timeout" ->
           [raises |-> "TimeoutError", reason |-> "timed out"]
      [] OTHER ->
           LET reply == UpstreamReply(cond, order_id, now)
           IN  [raises |-> IF 200 <= reply.status /\ reply.status < 300
                           THEN "none" ELSE "HTTPError",
                reason |-> "",
                response |-> reply]

Url(order_id) ==
    CUSTOMER_API_BASE \o "/api/orders"
        \o (IF Truthy(order_id) THEN "/" \o order_id.value ELSE "")

\* The result of _fetch_orders: the exception it lets through (raised) or
\* the returned (status, payload, metadata); lookups counts the calls of
\* _fallback_from_sample it made.
Returned(status, payload, metadata, lookups) ==
    [raised |-> "none", status |-> status, payload |-> payload,
     metadata |-> metadata, lookups |-> lookups]
Raised(exc) ==
    [raised |-> exc, status |-> 0, payload |-> NonDict,
     metadata |-> NoMetadata, lookups |-> 0]

\* _fetch_orders labelling the sample data as coming from the customer API
fetch_orders_mislabelled(order_id, cond, now) ==
    LET url == Url(order_id)
        r == urlopen(cond, order_id, now)
    IN  CASE r.raises = "none" ->
               IF ~r.response.body.arrives THEN Raised("TimeoutError")
               ELSE IF ~r.response.body.is_json THEN Raised("JSONDecodeError")
               ELSE Returned(r.response.status, r.response.body.json,
                             [source |-> "customer-api", url |-> url], 0)
          [] r.raises = "HTTPError" ->
               Returned(r.response.status,
                        IF r.response.body.arrives /\ r.response.body.is_json
                        THEN r.response.body.json
                        ELSE [error |-> "customer_api_error",
                              message |-> "HTTP Error"],
                        [source |-> "customer-api", url |-> url,
                         status |-> r.response.status],
                        0)
          [] r.raises = "URLError" ->
               LET f == fallback_from_sample(order_id, now)
               IN  Returned(f.status, f.payload,
                            [source |-> "customer-api", url |-> url,
                             customer_api_error |-> r.reason],
                            1)
          [] OTHER -> Raised(r.raises)

\* _fetch_orders turning to the sample data on an HTTP error as well
fetch_orders_fallback_on_error(order_id, cond, now) ==
    LET url == Url(order_id)
        r == urlopen(cond, order_id, now)
    IN  CASE r.raises = "none" ->
               IF ~r.response.body.arrives THEN Raised("TimeoutError")
               ELSE IF ~r.response.body.is_json THEN Raised("JSONDecodeError")
               ELSE Returned(r.response.status, r.response.body.json,
                             [source |-> "customer-api", url |-> url], 0)
          [] r.raises \in {"HTTPError", "URLError"} ->
               LET f == fallback_from_sample(order_id, now)
               IN  Returned(f.status, f.payload,
                            [source |-> "sample-data", url |-> url,
                             customer_api_error |-> "error"],
                            1)
          [] OTHER -> Raised(r.raises)

fetch_orders(order_id, cond, now) ==
    LET url == Url(order_id)
        r == urlopen(cond, order_id, now)
    IN  CASE r.raises = "none" ->
               IF ~r.response.body.arrives THEN Raised("TimeoutError")
               ELSE IF ~r.response.body.is_json THEN Raised("JSONDecodeError")
               ELSE Returned(r.response.status, r.response.body.json,
                             [source |-> "customer-api", url |-> url], 0)
          [] r.raises = "HTTPError" ->
               Returned(r.response.status,
                        IF r.response.body.arrives /\ r.response.body.is_json
                        THEN r.response.body.json
                        ELSE [error |-> "customer_api_error",
                              message |-> "HTTP Error"],
                        [source |-> "customer-api", url |-> url,
                         status |-> r.response.status],
                        0)
          [] r.raises = "URLError" ->
               LET f == fallback_from_sample(order_id, now)
               IN  Returned(f.status, f.payload,
                            [source |-> "sample-data", url |-> url,
                             customer_api_error |-> r.reason],
                            1)
          [] OTHER -> Raised(r.raises)

manifest ==
    [schema_version |-> "2024-05-24",
     name |-> "demo-orders-mcp",
     version |-> "1.0.0",
     tools |-> << [name |-> "orders",
                   input_schema |-> [type |-> "object",
                                     properties |-> [order_id |-> [type |-> "string"]]]] >>]

----------------------------------------------------------------------------
\* The requests a client can send.

OrderIds == {"A1001", "A1003", "Z9"}
TOOL_PATH == "/mcp/tools/orders"
MANIFEST_PATH == "/.well-known/mcp.json"
Paths == {"/", "/mcp/health", "/.well-known/mcp.json", "/mcp/logs", TOOL_PATH,
          "/health", "/logs", "/tools/orders"}
\* The X-MCP-Key header: absent, the secret, another value.
Keys == {PyNone, PyStr(SECRET), PyStr("wrong")}
Queries == {"", "order_id="} \cup {"order_id=" \o id : id \in OrderIds}

ObjectBody(id) == "{\"order_id\": \"" \o id \o "\"}"
BAD_UTF8 == "<0xFF>"
Bodies == {"", "{}", "not-json", "[1]", "\"A1001\"", "5", "null",
           "{\"order_id\": 5}", "{\"order_id\": null}", BAD_UTF8}
          \cup {ObjectBody(id) : id \in OrderIds \cup {""}}

Request(method, path, query, key, content_length, body) ==
    [method |-> method, path |-> path, query |-> query, key |-> key,
     content_length |-> content_length, body |-> body]

\* content_length: "absent", "abc" (not a number) or "length" (the number
\* of bytes of the body).
GetRequests ==
    {Request("GET", p, "", k, "absent", "") : p \in Paths, k \in Keys}
    \cup {Request("GET", TOOL_PATH, q, k, "absent", "") : q \in Queries, k \in Keys}
PostRequests ==
    {Request("POST", TOOL_PATH, "", k, "length", b) : k \in Keys, b \in Bodies}
    \cup {Request("POST", TOOL_PATH, "", k, c, "") : k \in Keys, c \in {"absent", "abc"}}
    \cup {Request("POST", p, "", PyNone, "absent", "") : p \in Paths}
OptionsRequests ==
    {Request("OPTIONS", p, "", PyNone, "absent", "") : p \in Paths}
Requests == GetRequests \cup PostRequests \cup OptionsRequests

\* self.path: the request target, query included.
Target(r) == r.path \o (IF r.query = "" THEN "" ELSE "?" \o r.query)

\* parse_qs(parsed.query).get("order_id", [None])[0]; parse_qs drops a
\* parameter whose value is blank.
QueryOrderId(query) ==
    IF \E id \in OrderIds : query = "order_id=" \o id
    THEN PyStr(CHOOSE id \in OrderIds : query = "order_id=" \o id)
    ELSE PyNone

\* raw_body.decode("utf-8") succeeds
Utf8(raw) == raw # BAD_UTF8

\* json.loads(text): the Python type of the decoded value and, for a dict,
\* its "order_id" entry ("absent" when the key is missing).
Decoded(type, order_id) == [type |-> type, order_id |-> order_id]
Absent == [type |-> "absent", value |-> ""]
json_loads(text) ==
    CASE text = "{}" -> Decoded("dict", Absent)
      [] text = "[1]" -> Decoded("list", Absent)
      [] text = "\"A1001\"" -> Decoded("str", Absent)
      [] text = "5" -> Decoded("int", Absent)
      [] text = "null" -> Decoded("None", Absent)
      [] text = "{\"order_id\": 5}" -> Decoded("dict", PyInt("5"))
      [] text = "{\"order_id\": null}" -> Decoded("dict", PyNone)
      [] \E id \in OrderIds \cup {""} : text = ObjectBody(id) ->
           Decoded("dict", PyStr(CHOOSE id \in OrderIds \cup {""} : text = ObjectBody(id)))
      [] OTHER -> Decoded("JSONDecodeError", Absent)

\* body.get("order_id")
BodyOrderId(body) == IF body.order_id = Absent THEN PyNone ELSE body.order_id

----------------------------------------------------------------------------
\* MCPRequestHandler: what a handler does with a request up to its first
\* call of _send_json, _handle_orders or REQUEST_LOG.as_dict.

NoBody == [empty |-> TRUE]
ToSend(status, payload, metadata) ==
    [next |-> "send", status |-> status, payload |-> payload,
     metadata |-> metadata, order_id |-> PyNone]
ToFetch(order_id) ==
    [next |-> "fetch", status |-> 0, payload |-> NoBody,
     metadata |-> NoMetadata, order_id |-> order_id]
ToSnapshot ==
    [next |-> "snapshot", status |-> HTTP_OK, payload |-> NoBody,
     metadata |-> NoMetadata, order_id |-> PyNone]
ToRaise(exc) ==
    [next |-> "raise", status |-> 0, payload |-> [exception |-> exc],
     metadata |-> NoMetadata, order_id |-> PyNone]

\* _require_api_key accepting any X-MCP-Key header that is present
require_api_key_any_header(env, provided) ==
    expected_api_key(env) = PyNone \/ provided # PyNone

require_api_key(env, provided) ==
    LET expected == expected_api_key(env)
    IN  expected = PyNone \/ provided = expected

Unauthorised ==
    ToSend(HTTP_UNAUTHORIZED,
           [error |-> "unauthorised", message |-> "Missing or invalid X-MCP-Key header."],
           [reason |-> "invalid_api_key"])

UnknownResource(path) ==
    ToSend(HTTP_NOT_FOUND,
           [error |-> "not_found",
            message |-> "Unknown resource '" \o path \o "' on the MCP platform."],
           NoMetadata)

BadRequest(error, message) ==
    ToSend(HTTP_BAD_REQUEST, [error |-> error, message |-> message], NoMetadata)

\* do_GET without the alias "/" of the health route
GetRoute_no_root_alias(r, env) ==
    CASE r.path = "/mcp/health" ->
           ToSend(HTTP_OK, [status |-> "healthy", service |-> "mcp-platform"], NoMetadata)
      [] r.path = "/.well-known/mcp.json" -> ToSend(HTTP_OK, manifest, NoMetadata)
      [] r.path = "/mcp/logs" -> ToSnapshot
      [] r.path = TOOL_PATH ->
           IF ~require_api_key(env, r.key) THEN Unauthorised
           ELSE ToFetch(QueryOrderId(r.query))
      [] OTHER -> UnknownResource(r.path)

\* do_GET asking for the key on the manifest route as well
GetRoute_manifest_guarded(r, env) ==
    CASE r.path = "/" \/ r.path = "/mcp/health" ->
           ToSend(HTTP_OK, [status |-> "healthy", service |-> "mcp-platform"], NoMetadata)
      [] r.path = "/.well-known/mcp.json" ->
           IF ~require_api_key(env, r.key) THEN Unauthorised
           ELSE ToSend(HTTP_OK, manifest, NoMetadata)
      [] r.path = "/mcp/logs" -> ToSnapshot
      [] r.path = TOOL_PATH ->
           IF ~require_api_key(env, r.key) THEN Unauthorised
           ELSE ToFetch(QueryOrderId(r.query))
      [] OTHER -> UnknownResource(r.path)

GetRoute(r, env) ==
    CASE r.path = "/" \/ r.path = "/mcp/health" ->
           ToSend(HTTP_OK, [status |-> "healthy", service |-> "mcp-platform"], NoMetadata)
      [] r.path = "/.well-known/mcp.json" -> ToSend(HTTP_OK, manifest, NoMetadata)
      [] r.path = "/mcp/logs" -> ToSnapshot
      [] r.path = TOOL_PATH ->
           IF ~require_api_key(env, r.key) THEN Unauthorised
           ELSE ToFetch(QueryOrderId(r.query))
      [] OTHER -> UnknownResource(r.path)

PostBody(r) ==
    LET length == IF r.content_length = "absent" THEN 0 ELSE Len(r.body)
        raw_body == IF length # 0 THEN r.body ELSE "{}"
    IN  IF raw_body = "" THEN ToFetch(PyNone)
        ELSE IF ~Utf8(raw_body) THEN ToRaise("UnicodeDecodeError")
        ELSE LET body == json_loads(raw_body)
             IN  IF body.type = "JSONDecodeError"
                 THEN BadRequest("invalid_json", "Request body must be valid JSON.")
                 ELSE IF body.type # "dict" THEN ToRaise("AttributeError")
                 ELSE LET order_id == BodyOrderId(body)
                      IN  IF order_id.type # "None" /\ order_id.type # "str"
                          THEN BadRequest("invalid_order_id",
                                          "order_id must be a string when provided.")
                          ELSE ToFetch(order_id)

\* do_POST validating the body before it asks for the key
PostRoute_validate_first(r, env) ==
    IF r.path = TOOL_PATH
    THEN LET checked == IF r.content_length = "abc"
                        THEN BadRequest("invalid_length", "Invalid Content-Length header.")
                        ELSE PostBody(r)
         IN  IF checked.next = "send" THEN checked
             ELSE IF ~require_api_key(env, r.key) THEN Unauthorised
             ELSE checked
    ELSE UnknownResource(r.path)

PostRoute(r, env) ==
    IF r.path = TOOL_PATH
    THEN IF ~require_api_key(env, r.key) THEN Unauthorised
         ELSE IF r.content_length = "abc"
              THEN BadRequest("invalid_length", "Invalid Content-Length header.")
              ELSE PostBody(r)
    ELSE UnknownResource(r.path)

\* _handle_orders taking every returned status for an error
handle_orders_all_errors(f) ==
    IF f.raised # "none" THEN ToRaise(f.raised)
    ELSE IF ~IsDict(f.payload) THEN ToRaise("AttributeError")
    ELSE ToSend(f.status,
                [error |-> DictGet(f.payload, "error", "customer_api_error"),
                 message |-> DictGet(f.payload, "message",
                                     "Customer API returned an error."),
                 data |-> f.payload],
                f.metadata)

\* _handle_orders after _fetch_orders returned or raised.
handle_orders(f) ==
    IF f.raised # "none" THEN ToRaise(f.raised)
    ELSE IF f.status >= 400
         THEN IF ~IsDict(f.payload) THEN ToRaise("AttributeError")
              ELSE ToSend(f.status,
                          [error |-> DictGet(f.payload, "error", "customer_api_error"),
                           message |-> DictGet(f.payload, "message",
                                               "Customer API returned an error."),
                           data |-> f.payload],
                          f.metadata)
         ELSE ToSend(f.status,
                     [tool |-> "orders", metadata |-> f.metadata, data |-> f.payload],
                     f.metadata)

\* RequestLog.record: the entry built for a response.
\* RequestLog.record writing 200 whatever status was sent
Entry_always_ok(now, r, status, metadata) ==
    IF metadata # NoMetadata
    THEN [time |-> now, method |-> r.method, path |-> Target(r), status |-> HTTP_OK,
          metadata |-> metadata]
    ELSE [time |-> now, method |-> r.method, path |-> Target(r), status |-> HTTP_OK]

Entry(now, r, status, metadata) ==
    IF metadata # NoMetadata
    THEN [time |-> now, method |-> r.method, path |-> Target(r), status |-> status,
          metadata |-> metadata]
    ELSE [time |-> now, method |-> r.method, path |-> Target(r), status |-> status]

----------------------------------------------------------------------------
\* The server: ThreadingHTTPServer runs one handler thread per request.

VARIABLES
    env_key,    \* os.environ.get("MCP_API_KEY")
    clock,      \* time.gmtime(), in seconds
    entries,    \* REQUEST_LOG._entries
    lock,       \* REQUEST_LOG._lock: 0 when free, else the thread holding it
    served,     \* requests accepted so far
    emitted,    \* responses written by _send_json so far
    pc,         \* where each handler thread is
    req,        \* the request of the thread
    order_arg,  \* the order_id passed to _handle_orders
    cond,       \* what the customer API did with the thread's call
    pending,    \* the arguments of the thread's _send_json call
    resp,       \* what the client of the thread has received
    stamped,    \* the entry RequestLog.record built
    calls,      \* urlopen calls of the thread
    lookups,    \* _fallback_from_sample calls of the thread
    recorded,   \* entries the thread appended
    seen        \* `emitted` when the thread's as_dict copied the entries

shared == <<env_key, clock, entries, lock, served, emitted>>
locals == <<pc, req, order_arg, cond, pending, resp, stamped, calls, lookups, recorded, seen>>
vars == <<shared, locals>>

NoRequest == Request("", "", "", PyNone, "absent", "")
NoPending == [status |-> 0, payload |-> NoBody, metadata |-> NoMetadata]
NoResponse == [kind |-> "none", status |-> 0, body |-> NoBody]
NoEntry == [time |-> 0 - 1]
Sent(status, body) == [kind |-> "sent", status |-> status, body |-> body]
\* socketserver's handle_error: the exception is printed and the connection
\* closed without a response.
Dropped(exc) == [kind |-> "dropped", status |-> 0, body |-> [exception |-> exc]]

InitWith(E) ==
    /\ env_key \in E
    /\ clock = 0
    /\ entries = << >>
    /\ lock = 0
    /\ served = 0
    /\ emitted = 0
    /\ pc = [t \in Threads |-> "idle"]
    /\ req = [t \in Threads |-> NoRequest]
    /\ order_arg = [t \in Threads |-> PyNone]
    /\ cond = [t \in Threads |-> "none"]
    /\ pending = [t \in Threads |-> NoPending]
    /\ resp = [t \in Threads |-> NoResponse]
    /\ stamped = [t \in Threads |-> NoEntry]
    /\ calls = [t \in Threads |-> 0]
    /\ lookups = [t \in Threads |-> 0]
    /\ recorded = [t \in Threads |-> 0]
    /\ seen = [t \in Threads |-> 0 - 1]

Init == InitWith(EnvKeys)

\* Thread t is the next one the server starts: threads are interchangeable,
\* so the server is taken to use the lowest free one.
Fresh(t) == pc[t] = "idle" /\ \A u \in Threads : u < t => pc[u] # "idle"

\* The handler of thread t starts on request r and runs to `route`.
Begin(t, r, route) ==
    /\ Fresh(t)
    /\ req' = [req EXCEPT ![t] = r]
    /\ served' = served + 1
    /\ pc' = [pc EXCEPT ![t] =
                CASE route.next = "send" -> "send"
                  [] route.next = "fetch" -> "waiting"
                  [] route.next = "snapshot" -> "snapshot"
                  [] OTHER -> "done"]
    /\ pending' = [pending EXCEPT ![t] =
                     IF route.next = "send"
                     THEN [status |-> route.status, payload |-> route.payload,
                           metadata |-> route.metadata]
                     ELSE NoPending]
    /\ order_arg' = [order_arg EXCEPT ![t] = route.order_id]
    /\ calls' = [calls EXCEPT ![t] = IF route.next = "fetch" THEN 1 ELSE 0]
    /\ resp' = [resp EXCEPT ![t] =
                  IF route.next = "raise" THEN Dropped(route.payload.exception)
                  ELSE NoResponse]
    /\ UNCHANGED <<env_key, clock, entries, lock, emitted>>
    /\ UNCHANGED <<cond, stamped, lookups, recorded, seen>>

do_GET(t, R) ==
    \E r \in R : r.method = "GET" /\ Begin(t, r, GetRoute(r, env_key))

do_POST(t, R) ==
    \E r \in R : r.method = "POST" /\ Begin(t, r, PostRoute(r, env_key))

\* do_OPTIONS answers 204 itself: it never calls _send_json.
do_OPTIONS(t, R) ==
    \E r \in R :
        /\ r.method = "OPTIONS"
        /\ Fresh(t)
        /\ req' = [req EXCEPT ![t] = r]
        /\ served' = served + 1
        /\ pc' = [pc EXCEPT ![t] = "done"]
        /\ resp' = [resp EXCEPT ![t] = Sent(HTTP_NO_CONTENT, NoBody)]
        /\ UNCHANGED <<env_key, clock, entries, lock, emitted>>
        /\ UNCHANGED <<order_arg, cond, pending, stamped, calls, lookups, recorded, seen>>

\* _handle_orders: urlopen ends in one of the ways the customer API can
\* behave, _fetch_orders returns or raises, and the envelope is built.
HandleOrders(t, C) ==
    /\ pc[t] = "waiting"
    /\ \E c \in C :
        LET f == fetch_orders(order_arg[t], c, clock)
            out == handle_orders(f)
        IN  /\ cond' = [cond EXCEPT ![t] = c]
            /\ lookups' = [lookups EXCEPT ![t] = f.lookups]
            /\ IF out.next = "send"
               THEN /\ pending' = [pending EXCEPT ![t] =
                                     [status |-> out.status, payload |-> out.payload,
                                      metadata |-> out.metadata]]
                    /\ pc' = [pc EXCEPT ![t] = "send"]
                    /\ resp' = resp
               ELSE /\ pending' = pending
                    /\ pc' = [pc EXCEPT ![t] = "done"]
                    /\ resp' = [resp EXCEPT ![t] = Dropped(out.payload.exception)]
    /\ UNCHANGED shared
    /\ UNCHANGED <<req, order_arg, stamped, calls, recorded, seen>>

\* RequestLog.as_dict: `with self._lock`
AsDictAcquire(t) ==
    /\ pc[t] = "snapshot"
    /\ lock = 0
    /\ lock' = t
    /\ pc' = [pc EXCEPT ![t] = "copying"]
    /\ UNCHANGED <<env_key, clock, entries, served, emitted>>
    /\ UNCHANGED <<req, order_arg, cond, pending, resp, stamped, calls, lookups, recorded, seen>>

\* RequestLog.as_dict returning without the release of the lock
AsDictCopy_keeps_lock(t) ==
    /\ pc[t] = "copying"
    /\ pending' = [pending EXCEPT ![t] =
                     [status |-> HTTP_OK, payload |-> [entries |-> entries],
                      metadata |-> NoMetadata]]
    /\ seen' = [seen EXCEPT ![t] = emitted]
    /\ pc' = [pc EXCEPT ![t] = "send"]
    /\ UNCHANGED <<env_key, clock, entries, lock, served, emitted>>
    /\ UNCHANGED <<req, order_arg, cond, resp, stamped, calls, lookups, recorded>>

\* RequestLog.as_dict: the copy, and the release of the lock
AsDictCopy(t) ==
    /\ pc[t] = "copying"
    /\ pending' = [pending EXCEPT ![t] =
                     [status |-> HTTP_OK, payload |-> [entries |-> entries],
                      metadata |-> NoMetadata]]
    /\ seen' = [seen EXCEPT ![t] = emitted]
    /\ lock' = 0
    /\ pc' = [pc EXCEPT ![t] = "send"]
    /\ UNCHANGED <<env_key, clock, entries, served, emitted>>
    /\ UNCHANGED <<req, order_arg, cond, resp, stamped, calls, lookups, recorded>>

\* _send_json up to wfile.write: the client receives the response.
SendJson(t) ==
    /\ pc[t] = "send"
    /\ resp' = [resp EXCEPT ![t] = Sent(pending[t].status, pending[t].payload)]
    /\ emitted' = emitted + 1
    /\ pc' = [pc EXCEPT ![t] = "stamp"]
    /\ UNCHANGED <<env_key, clock, entries, lock, served>>
    /\ UNCHANGED <<req, order_arg, cond, pending, stamped, calls, lookups, recorded, seen>>

\* RequestLog.record: the entry is built, with the time, before the lock.
RecordEntry(t) ==
    /\ pc[t] = "stamp"
    /\ stamped' = [stamped EXCEPT ![t] =
                     Entry(clock, req[t], pending[t].status, pending[t].metadata)]
    /\ pc' = [pc EXCEPT ![t] = "lock"]
    /\ UNCHANGED shared
    /\ UNCHANGED <<req, order_arg, cond, pending, resp, calls, lookups, recorded, seen>>

\* RequestLog.record: `with self._lock`
RecordAcquire(t) ==
    /\ pc[t] = "lock"
    /\ lock = 0
    /\ lock' = t
    /\ pc' = [pc EXCEPT ![t] = "append"]
    /\ UNCHANGED <<env_key, clock, entries, served, emitted>>
    /\ UNCHANGED <<req, order_arg, cond, pending, resp, stamped, calls, lookups, recorded, seen>>

\* RequestLog.record putting the new entry in front of the others
RecordAppend_in_front(t) ==
    /\ pc[t] = "append"
    /\ entries' = <<stamped[t]>> \o entries
    /\ recorded' = [recorded EXCEPT ![t] = recorded[t] + 1]
    /\ lock' = 0
    /\ pc' = [pc EXCEPT ![t] = "done"]
    /\ UNCHANGED <<env_key, clock, served, emitted>>
    /\ UNCHANGED <<req, order_arg, cond, pending, resp, stamped, calls, lookups, seen>>

\* RequestLog.record: the append, and the release of the lock
RecordAppend(t) ==
    /\ pc[t] = "append"
    /\ entries' = Append(entries, stamped[t])
    /\ recorded' = [recorded EXCEPT ![t] = recorded[t] + 1]
    /\ lock' = 0
    /\ pc' = [pc EXCEPT ![t] = "done"]
    /\ UNCHANGED <<env_key, clock, served, emitted>>
    /\ UNCHANGED <<req, order_arg, cond, pending, resp, stamped, calls, lookups, seen>>

\* The handler has returned: the connection is closed and the thread ends.
Finish(t) ==
    /\ pc[t] = "done"
    /\ pc' = [pc EXCEPT ![t] = "idle"]
    /\ req' = [req EXCEPT ![t] = NoRequest]
    /\ order_arg' = [order_arg EXCEPT ![t] = PyNone]
    /\ cond' = [cond EXCEPT ![t] = "none"]
    /\ pending' = [pending EXCEPT ![t] = NoPending]
    /\ resp' = [resp EXCEPT ![t] = NoResponse]
    /\ stamped' = [stamped EXCEPT ![t] = NoEntry]
    /\ calls' = [calls EXCEPT ![t] = 0]
    /\ lookups' = [lookups EXCEPT ![t] = 0]
    /\ recorded' = [recorded EXCEPT ![t] = 0]
    /\ seen' = [seen EXCEPT ![t] = 0 - 1]
    /\ UNCHANGED shared

\* A second passes.
Tick ==
    /\ clock < MaxClock
    /\ clock' = clock + 1
    /\ UNCHANGED <<env_key, entries, lock, served, emitted>>
    /\ UNCHANGED locals

Step(t) ==
    \/ AsDictAcquire(t)
    \/ AsDictCopy(t)
    \/ SendJson(t)
    \/ RecordEntry(t)
    \/ RecordAcquire(t)
    \/ RecordAppend(t)
    \/ Finish(t)

\* One client that sends its next request when the handler of the last one
\* has ended.
OneAtATime == served < MaxRequests /\ \A u \in Threads : pc[u] = "idle"

Next ==
    \/ Tick
    \/ \E t \in Threads :
        \/ OneAtATime /\ do_OPTIONS(t, Requests)
        \/ OneAtATime /\ do_GET(t, Requests)
        \/ OneAtATime /\ do_POST(t, Requests)
        \/ HandleOrders(t, Conditions)
        \/ Step(t)

Spec == Init /\ [][Next]_vars

\* Clients that send their requests at the same time: a burst of at most
\* MaxThreads requests, each handled by its own thread.
BurstRequests ==
    { Request("GET", TOOL_PATH, "", PyNone, "absent", ""),
      Request("GET", "/mcp/logs", "", PyNone, "absent", ""),
      Request("GET", "/mcp/health", "", PyNone, "absent", ""),
      Request("POST", TOOL_PATH, "", PyNone, "length", "[1]"),
      Request("OPTIONS", TOOL_PATH, "", PyNone, "absent", "") }

\* During the burst the customer API answers, refuses or stalls.
BurstConditions == {"healthy", "refused", "response_timeout"}

InBurst == served < MaxThreads

NextConc ==
    \/ Tick
    \/ \E t \in Threads :
        \/ InBurst /\ do_OPTIONS(t, BurstRequests)
        \/ InBurst /\ do_GET(t, BurstRequests)
        \/ InBurst /\ do_POST(t, BurstRequests)
        \/ HandleOrders(t, BurstConditions)
        \/ Step(t)

\* The burst is sent to a gateway that has no MCP_API_KEY.
InitConc == InitWith({PyNone})

SpecConc == InitConc /\ [][NextConc]_vars

\* Concurrent GET requests while the customer API may stall: tool requests
\* next to a health, a manifest and a logs request.
StallRequests ==
    {Request("GET", p, "", PyNone, "absent", "") :
        p \in {TOOL_PATH, "/mcp/health", MANIFEST_PATH, "/mcp/logs"}}

StallConditions == {"healthy", "refused"}

\* The requests arrive within one second: the time stamps of the entries
\* have no part in the locking.
NextStall ==
    \E t \in Threads :
        \/ InBurst /\ do_GET(t, StallRequests)
        \/ HandleOrders(t, StallConditions)
        \/ Step(t)

\* The scheduling of the handler threads: a thread that can take its next
\* step takes it in the end. Nothing makes the customer API answer: a
\* handler may wait on it for as long as the others run.
SpecStall ==
    /\ InitConc /\ [][NextStall]_vars
    /\ \A t \in Threads : WF_vars(Step(t))

\* A client that calls the manifest again and again, with and without a
\* key, between other requests, each sent when the last one has ended; its
\* tool requests give no order_id or an empty one.
RepeatRequests ==
    {Request("GET", MANIFEST_PATH, "", k, "absent", "") : k \in Keys}
    \cup { Request("GET", TOOL_PATH, "", PyStr(SECRET), "absent", ""),
           Request("GET", TOOL_PATH, "order_id=", PyStr(SECRET), "absent", ""),
           Request("POST", TOOL_PATH, "", PyStr(SECRET), "length", ObjectBody("")),
           Request("GET", "/mcp/logs", "", PyNone, "absent", ""),
           Request("OPTIONS", MANIFEST_PATH, "", PyNone, "absent", "") }

Repeating == served < MaxCalls /\ \A u \in Threads : pc[u] = "idle"

NextRepeat ==
    \/ Tick
    \/ \E t \in Threads :
        \/ Repeating /\ do_OPTIONS(t, RepeatRequests)
        \/ Repeating /\ do_GET(t, RepeatRequests)
        \/ Repeating /\ do_POST(t, RepeatRequests)
        \/ HandleOrders(t, Conditions)
        \/ Step(t)

SpecRepeat == Init /\ [][NextRepeat]_vars

----------------------------------------------------------------------------
\* Properties.

IsToolRequest(r) == r.method \in {"GET", "POST"} /\ r.path = TOOL_PATH
\* The handler of t has written its response or given up.
Answered(t) == pc[t] \in {"stamp", "lock", "append", "done"}
Logged(t) == \E i \in 1..Len(entries) : entries[i] = stamped[t]
IsErrorEnvelope(body) == {"error", "message"} \subseteq DOMAIN body /\ "tool" \notin DOMAIN body
IsSuccessEnvelope(body) == {"tool", "metadata", "data"} \subseteq DOMAIN body /\ "error" \notin DOMAIN body
CatalogIds == {SAMPLE_ORDERS[i].order_id : i \in 1..Len(SAMPLE_ORDERS)}
UpstreamIds == {UPSTREAM_ORDERS[i].order_id : i \in 1..Len(UPSTREAM_ORDERS)}

\* A secret is configured and the request does not carry it.
BadKey(r) == Truthy(env_key) /\ r.key # env_key

\* C1: with a secret configured, a GET or POST to the tool route without
\* the X-MCP-Key header or with another value is answered 401 "unauthorised",
\* its log entry carries the failure reason, and the handler makes no
\* upstream call and no fallback lookup.
C1_UnauthorisedIsTerminal ==
    \A t \in Threads :
        (IsToolRequest(req[t]) /\ BadKey(req[t])) =>
            /\ calls[t] = 0 /\ lookups[t] = 0 /\ pc[t] # "waiting"
            /\ resp[t].kind # "dropped"
            /\ Answered(t) =>
                 /\ resp[t].kind = "sent"
                 /\ resp[t].status = HTTP_UNAUTHORIZED
                 /\ DictGet(resp[t].body, "error", "") = "unauthorised"
            /\ pc[t] = "done" =>
                 /\ recorded[t] = 1 /\ Logged(t)
                 /\ stamped[t].status = HTTP_UNAUTHORIZED
                 /\ DictGet(stamped[t], "metadata", NoMetadata) = [reason |-> "invalid_api_key"]

C1_Witness ==
    \E t \in Threads :
        /\ pc[t] = "done" /\ req[t].method = "POST" /\ req[t].path = TOOL_PATH
        /\ env_key = PyStr(SECRET) /\ req[t].key = PyStr("wrong")
        /\ resp[t].status = HTTP_UNAUTHORIZED /\ recorded[t] = 1

\* The connection to the customer API could not be made.
Unreachable(t) == cond[t] \in NotConnecting
NoOrderIdGiven(r) ==
    \/ r.method = "GET" /\ r.query = ""
    \/ r.method = "POST" /\ r.body \in {"", "{}"}

\* C2: when the customer API is unreachable and the request gives no
\* order_id, the tool route answers 200 with a success envelope whose
\* data.orders is the whole sample catalog, in its order and not empty, and
\* whose metadata names the sample data as the source.
C2_FallbackListing ==
    \A t \in Threads :
        (Unreachable(t) /\ NoOrderIdGiven(req[t]) /\ Answered(t)) =>
            /\ resp[t].kind = "sent"
            /\ resp[t].status = HTTP_OK
            /\ IsSuccessEnvelope(resp[t].body)
            /\ resp[t].body.data.orders = SAMPLE_ORDERS
            /\ Len(resp[t].body.data.orders) > 0
            /\ resp[t].body.metadata.source = "sample-data"

C2_Witness ==
    \E t \in Threads :
        /\ pc[t] = "done" /\ cond[t] = "refused" /\ req[t].method = "GET"
        /\ req[t].query = "" /\ resp[t].status = HTTP_OK
        /\ Len(resp[t].body.data.orders) = 3

\* C3: when the customer API is unreachable and the requested order_id is
\* not in the sample catalog, the tool route answers 404 with an error
\* envelope whose error is "not_found", never a success envelope and never
\* a dropped connection.
C3_FallbackMiss ==
    \A t \in Threads :
        (Unreachable(t) /\ Truthy(order_arg[t]) /\ order_arg[t].value \notin CatalogIds
         /\ Answered(t)) =>
            /\ resp[t].kind = "sent"
            /\ resp[t].status = HTTP_NOT_FOUND
            /\ IsErrorEnvelope(resp[t].body)
            /\ resp[t].body.error = "not_found"

C3_Witness ==
    \E t \in Threads :
        /\ pc[t] = "done" /\ cond[t] = "connect_timeout"
        /\ order_arg[t] = PyStr("Z9") /\ resp[t].status = HTTP_NOT_FOUND

\* C5: when the customer API is reachable and holds order X, a tool request
\* for X (GET query or POST body) gets a success envelope with the status
\* of the customer API, metadata naming the customer API and the called
\* URL, and data equal to the customer API's payload for X; the sample data
\* is not consulted.
C5_UpstreamOrder ==
    \A t \in Threads :
        (cond[t] = "healthy" /\ Truthy(order_arg[t]) /\ order_arg[t].value \in UpstreamIds
         /\ Answered(t)) =>
            LET reply == application(order_arg[t], 0)
            IN  /\ resp[t].kind = "sent"
                /\ resp[t].status = reply.status
                /\ IsSuccessEnvelope(resp[t].body)
                /\ resp[t].body.metadata =
                     [source |-> "customer-api",
                      url |-> CUSTOMER_API_BASE \o "/api/orders/" \o order_arg[t].value]
                /\ resp[t].body.data = reply.payload
                /\ resp[t].body.data.order_id = order_arg[t].value
                /\ req[t].method = "GET" => req[t].query = "order_id=" \o order_arg[t].value
                /\ req[t].method = "POST" => req[t].body = ObjectBody(order_arg[t].value)
                /\ lookups[t] = 0

C5_Witness ==
    \E t \in Threads :
        /\ pc[t] = "done" /\ cond[t] = "healthy" /\ req[t].method = "POST"
        /\ req[t].body = ObjectBody("A1001")
        /\ resp[t].status = HTTP_OK /\ resp[t].body.data.order_id = "A1001"

\* The customer API answered the call of t with an error status.
UpstreamError(t) ==
    /\ cond[t] \in Replying
    /\ UpstreamReply(cond[t], order_arg[t], 0).status >= 400

\* C4: whenever the customer API is reachable and answers with an HTTP
\* error status, the gateway answers with the same status and an error
\* envelope {error, message, data}, data being the payload of the customer
\* API; it gives no success envelope and does not consult the sample data.
C4_UpstreamErrorPropagated ==
    \A t \in Threads :
        (UpstreamError(t) /\ pc[t] = "done") =>
            LET reply == UpstreamReply(cond[t], order_arg[t], 0)
            IN  /\ resp[t].kind = "sent"
                /\ resp[t].status = reply.status
                /\ IsErrorEnvelope(resp[t].body)
                /\ "data" \in DOMAIN resp[t].body
                /\ reply.body.is_json => resp[t].body.data = reply.body.json
                /\ lookups[t] = 0

\* The ways C6 names in which the body of a POST to the tool route is invalid.
NotJson(r) == r.content_length = "length" /\ r.body \in {"not-json", BAD_UTF8}
NotAnObject(r) == r.content_length = "length" /\ r.body \in {"[1]", "\"A1001\"", "5", "null"}
OrderIdNotString(r) == r.content_length = "length" /\ r.body = "{\"order_id\": 5}"
BadLength(r) == r.content_length = "abc"

\* C6: a POST to the tool route with an invalid input is answered 400 before
\* any upstream call: "invalid_json" for a body that is not valid JSON,
\* "invalid_order_id" for an order_id that is not a string, "invalid_length"
\* for a Content-Length that is not a number, and 400 as well for a body
\* that decodes to something other than an object; neither the customer API
\* nor the sample data is used.
C6_InvalidInputRejected ==
    \A t \in Threads :
        LET r == req[t]
            invalid == NotJson(r) \/ NotAnObject(r) \/ OrderIdNotString(r) \/ BadLength(r)
        IN  (r.method = "POST" /\ r.path = TOOL_PATH /\ ~BadKey(r) /\ invalid) =>
                /\ calls[t] = 0 /\ lookups[t] = 0
                /\ pc[t] = "done" =>
                     /\ resp[t].kind = "sent"
                     /\ resp[t].status = HTTP_BAD_REQUEST
                     /\ NotJson(r) => DictGet(resp[t].body, "error", "") = "invalid_json"
                     /\ OrderIdNotString(r) =>
                          DictGet(resp[t].body, "error", "") = "invalid_order_id"
                     /\ BadLength(r) => DictGet(resp[t].body, "error", "") = "invalid_length"

\* C7: every request the gateway handled, whatever its method, route or
\* outcome, has appended exactly one entry to the log.
C7_OneEntryPerRequest ==
    \A t \in Threads : pc[t] = "done" => recorded[t] = 1

\* C8: the times of the log entries never decrease along the log.
C8_TimesNonDecreasing ==
    \A i, j \in 1..Len(entries) : i < j => entries[i].time <= entries[j].time

\* C9: a snapshot of the log holds the entry of every request whose
\* response had been written when the snapshot was taken: it is at least as
\* long as the number of responses written before it.
C9_RecordedBeforeResponse ==
    \A t \in Threads :
        seen[t] >= 0 => Len(pending[t].payload.entries) >= seen[t]

\* The customer API did not accept the connection or did not answer within
\* the timeout.
TimedOutOrRefused(t) ==
    cond[t] \in NotConnecting \cup {"response_timeout", "read_timeout"}

\* C10: a tool request that passed the credential and input checks ends with
\* an envelope; when the customer API cannot be connected to or does not
\* answer within the timeout (at connect, waiting for the response, reading
\* the body) the sample data is used; the connection is never dropped.
C10_AlwaysAnEnvelope ==
    \A t \in Threads :
        (calls[t] = 1 /\ pc[t] = "done" /\ TimedOutOrRefused(t)) =>
            /\ resp[t].kind = "sent"
            /\ IsSuccessEnvelope(resp[t].body) \/ IsErrorEnvelope(resp[t].body)
            /\ lookups[t] = 1


\* C11: whenever the sample data is substituted for an unreachable customer
\* API, hit or miss, the response to the client has a metadata block that
\* names the sample data as the source and gives the reason.
C11_FallbackDisclosed ==
    \A t \in Threads :
        (lookups[t] = 1 /\ Answered(t)) =>
            /\ resp[t].kind = "sent"
            /\ "metadata" \in DOMAIN resp[t].body
            /\ resp[t].body.metadata.source = "sample-data"
            /\ "customer_api_error" \in DOMAIN resp[t].body.metadata

\* The success envelope of a tool request has been sent to the client of t.
SuccessSent(t) ==
    /\ IsToolRequest(req[t]) /\ Answered(t)
    /\ resp[t].kind = "sent" /\ IsSuccessEnvelope(resp[t].body)

\* C12 as stated: metadata.source of a success envelope is "upstream" for
\* data of the customer API and "fallback" for the sample data.
C12_SourceAsStated ==
    \A t \in Threads :
        SuccessSent(t) =>
            resp[t].body.metadata.source = IF lookups[t] = 1 THEN "fallback" ELSE "upstream"

\* C12, amended: metadata.source of a success envelope is "customer-api"
\* when the data came from the customer API and "sample-data" when it came
\* from the sample data, and nothing else.
C12_SourceNamesOrigin ==
    \A t \in Threads :
        SuccessSent(t) =>
            /\ resp[t].body.metadata.source \in {"customer-api", "sample-data"}
            /\ (resp[t].body.metadata.source = "sample-data") <=>
                   (lookups[t] = 1 /\ cond[t] \in NotConnecting)
            /\ (resp[t].body.metadata.source = "customer-api") <=>
                   (lookups[t] = 0 /\ cond[t] \in Replying)

C12_Witness ==
    \E t \in Threads :
        /\ pc[t] = "done" /\ SuccessSent(t) /\ cond[t] = "refused"
        /\ order_arg[t] = PyStr("A1003")
        /\ resp[t].body.metadata.source = "sample-data"


\* The answer to an unknown path: 404 not_found, the path in the message.
SentUnknown(t) ==
    /\ resp[t].kind = "sent" /\ resp[t].status = HTTP_NOT_FOUND
    /\ resp[t].body = [error |-> "not_found",
                       message |-> "Unknown resource '" \o req[t].path
                                       \o "' on the MCP platform."]

\* The routes are served under the paths health (and "/"), the manifest
\* path, logs and tool, and every other path is answered as unknown
\* (stated of the requests that are answered at all).
RoutesServed(health, logs, tool) ==
    \A t \in Threads :
        (Answered(t) /\ resp[t].kind = "sent" /\ req[t].method \in {"GET", "POST"}) =>
            LET get == req[t].method = "GET"
                path == req[t].path
            IN  /\ (get /\ path \in {"/", health}) =>
                       resp[t] = Sent(HTTP_OK, [status |-> "healthy",
                                                service |-> "mcp-platform"])
                /\ (get /\ path = "/.well-known/mcp.json") =>
                       resp[t] = Sent(HTTP_OK, manifest)
                /\ (get /\ path = logs) =>
                       /\ resp[t].kind = "sent" /\ resp[t].status = HTTP_OK
                       /\ DOMAIN resp[t].body = {"entries"}
                /\ (path = tool) => ~SentUnknown(t)
                /\ (path # tool /\ (~get \/ path \notin {"/", health, "/.well-known/mcp.json", logs}))
                       => SentUnknown(t)

Rejected(t) ==
    /\ pending[t].status = HTTP_UNAUTHORIZED
    /\ pending[t].payload = Unauthorised.payload
    /\ calls[t] = 0

\* C14: with MCP_API_KEY unset or empty no tool request is turned away with
\* 401; with a secret configured the check lets through exactly the
\* requests whose X-MCP-Key header equals the secret.
C14_CredentialCheck ==
    \A t \in Threads :
        (IsToolRequest(req[t]) /\ pc[t] # "idle") =>
            /\ ~Truthy(env_key) =>
                   /\ ~Rejected(t)
                   /\ (resp[t].kind = "sent" /\ cond[t] \notin Replying)
                          => resp[t].status # HTTP_UNAUTHORIZED
            /\ Truthy(env_key) => (Rejected(t) <=> req[t].key # env_key)
            /\ (Rejected(t) /\ Answered(t)) => resp[t].status = HTTP_UNAUTHORIZED

C14_Witness ==
    \E t \in Threads :
        /\ pc[t] = "done" /\ IsToolRequest(req[t])
        /\ env_key = PyStr("") /\ req[t].key = PyStr("wrong")
        /\ resp[t].kind = "sent" /\ resp[t].status = HTTP_OK


\* The places of the order with this id in a list of orders.
Places(orders, id) == {i \in 1..Len(orders) : orders[i].order_id = id}

\* The sample data has been consulted for the request of t and the answer
\* has been sent.
FallbackAnswered(t) == lookups[t] = 1 /\ Answered(t) /\ resp[t].kind = "sent"

\* C15: for every id of the sample catalog get_order_payload returns the
\* order with that id and list_orders_payload has it exactly once, at its
\* place in the catalog; an id that is not in the catalog is not found.
C15_CatalogLookups ==
    /\ \A id \in CatalogIds :
           /\ IsDict(get_order_payload(id))
           /\ get_order_payload(id).order_id = id
           /\ \E i \in 1..Len(SAMPLE_ORDERS) :
                  /\ Places(list_orders_payload(0).orders, id) = {i}
                  /\ list_orders_payload(0).orders[i] = get_order_payload(id)
                  /\ SAMPLE_ORDERS[i] = get_order_payload(id)
    /\ \A id \in OrderIds \ CatalogIds : ~IsDict(get_order_payload(id))
    /\ \A t \in Threads :
           FallbackAnswered(t) =>
               IF ~Truthy(order_arg[t])
               THEN /\ resp[t].status = HTTP_OK
                    /\ resp[t].body.data.orders = SAMPLE_ORDERS
                    /\ \A id \in CatalogIds :
                           Cardinality(Places(resp[t].body.data.orders, id)) = 1
               ELSE IF order_arg[t].value \in CatalogIds
               THEN /\ resp[t].status = HTTP_OK
                    /\ resp[t].body.data.order_id = order_arg[t].value
                    /\ \E i \in 1..Len(SAMPLE_ORDERS) : SAMPLE_ORDERS[i] = resp[t].body.data
               ELSE /\ resp[t].status = HTTP_NOT_FOUND
                    /\ resp[t].body.error = "not_found"

C15_Witness ==
    \E t \in Threads :
        /\ FallbackAnswered(t) /\ pc[t] = "done"
        /\ order_arg[t] = PyStr("A1003")
        /\ resp[t].body.data = SAMPLE_ORDERS[3]


IsManifestRequest(r) == r.method = "GET" /\ r.path = MANIFEST_PATH

\* The log entry of a manifest call, but for its time.
IsManifestEntry(e) ==
    /\ DOMAIN e = {"time", "method", "path", "status"}
    /\ e.method = "GET" /\ e.path = MANIFEST_PATH /\ e.status = HTTP_OK

\* C16: every GET /.well-known/mcp.json is answered 200 with the same
\* manifest, whose first tool is "orders", whatever was requested before,
\* whatever key it carries and whatever the customer API does; it makes no
\* call to the customer API and leaves one log entry of the same shape.
C16_ManifestIdempotent ==
    /\ \A t \in Threads :
           (IsManifestRequest(req[t]) /\ pc[t] # "idle") =>
               /\ calls[t] = 0 /\ lookups[t] = 0 /\ cond[t] = "none"
               /\ pending[t] = [status |-> HTTP_OK, payload |-> manifest,
                                metadata |-> NoMetadata]
               /\ pending[t].payload.tools[1].name = "orders"
               /\ Answered(t) => resp[t] = Sent(HTTP_OK, manifest)
               /\ pc[t] \in {"lock", "append", "done"} => IsManifestEntry(stamped[t])
               /\ pc[t] = "done" => recorded[t] = 1
    /\ \A i \in 1..Len(entries) :
           (entries[i].method = "GET" /\ entries[i].path = MANIFEST_PATH)
               => IsManifestEntry(entries[i])

C16_Witness ==
    \E t \in Threads :
        /\ pc[t] = "done" /\ IsManifestRequest(req[t])
        /\ env_key = PyStr(SECRET) /\ req[t].key = PyStr("wrong")
        /\ resp[t] = Sent(HTTP_OK, manifest)
        /\ Len(entries) = 2
        /\ entries[1].path = TOOL_PATH /\ entries[1].status = HTTP_OK
        /\ "customer_api_error" \in DOMAIN entries[1].metadata
        /\ IsManifestEntry(entries[2])


\* A POST to the tool route with an input that do_POST itself refuses.
RefusedInput(r) ==
    /\ r.method = "POST" /\ r.path = TOOL_PATH
    /\ (r.content_length = "length" /\ r.body = "not-json")
           \/ OrderIdNotString(r) \/ BadLength(r)

InvalidInput(r) ==
    /\ r.method = "POST" /\ r.path = TOOL_PATH
    /\ NotJson(r) \/ NotAnObject(r) \/ OrderIdNotString(r) \/ BadLength(r)

\* C17 as stated: the input is validated before the credential is checked,
\* so a POST to the tool route with an invalid body is answered 400 whether
\* or not its credential is valid.
C17_ValidatedBeforeCredential ==
    \A t \in Threads :
        (RefusedInput(req[t]) /\ Answered(t)) =>
            /\ resp[t].kind = "sent" /\ resp[t].status = HTTP_BAD_REQUEST
            /\ calls[t] = 0

\* C17, amended: the credential is checked first, then the input is
\* validated, then the customer API is called: a tool request with a wrong
\* credential is answered 401 whether or not its body is valid, a 400 is
\* only given to a request whose credential passed, and the customer API is
\* called only after both checks passed.
C17_CredentialBeforeValidation ==
    \A t \in Threads :
        (IsToolRequest(req[t]) /\ pc[t] # "idle") =>
            /\ BadKey(req[t]) =>
                   /\ Rejected(t)
                   /\ Answered(t) => resp[t].kind = "sent" /\ resp[t].status = HTTP_UNAUTHORIZED
            /\ (Answered(t) /\ resp[t].kind = "sent" /\ calls[t] = 0
                    /\ resp[t].status = HTTP_BAD_REQUEST)
                   => ~BadKey(req[t]) /\ InvalidInput(req[t])
            /\ calls[t] >= 1 => ~BadKey(req[t]) /\ ~InvalidInput(req[t])

C17_Witness ==
    \E t \in Threads :
        /\ pc[t] = "done" /\ req[t].method = "POST" /\ req[t].path = TOOL_PATH
        /\ req[t].body = "not-json" /\ req[t].content_length = "length"
        /\ BadKey(req[t])
        /\ resp[t].kind = "sent" /\ resp[t].status = HTTP_UNAUTHORIZED
        /\ calls[t] = 0


IsPrefix(a, b) == Len(a) <= Len(b) /\ \A i \in 1..Len(a) : a[i] = b[i]

\* The handler of t has taken a snapshot of the log (as_dict has returned).
HoldsSnapshot(t) == seen[t] >= 0
Snapshot(t) == pending[t].payload.entries

\* C18: the log only grows at its end, so every later state of it extends
\* every earlier one; a snapshot is a copy taken at one moment: it stays as
\* it was taken whatever is appended later, it is what the client is sent,
\* and of two snapshots the earlier is a prefix of the later.
C18_AppendOnlyLog ==
    /\ [][IsPrefix(entries, entries')]_vars
    /\ [][\A t \in Threads :
             (HoldsSnapshot(t) /\ HoldsSnapshot(t)') => Snapshot(t)' = Snapshot(t)]_vars
    /\ [](\A t \in Threads :
             HoldsSnapshot(t) =>
                 /\ IsPrefix(Snapshot(t), entries)
                 /\ (Answered(t) /\ resp[t].kind = "sent")
                        => resp[t].body = [entries |-> Snapshot(t)])
    /\ [](\A t, u \in Threads :
             (HoldsSnapshot(t) /\ HoldsSnapshot(u)) =>
                 IsPrefix(Snapshot(t), Snapshot(u)) \/ IsPrefix(Snapshot(u), Snapshot(t)))

C18_Witness ==
    \E t, u \in Threads :
        /\ pc[t] = "done" /\ pc[u] = "done"
        /\ HoldsSnapshot(t) /\ HoldsSnapshot(u)
        /\ Snapshot(t) = <<>> /\ Len(Snapshot(u)) = 1
        /\ Len(entries) = 2
        /\ resp[t].body.entries = <<>> /\ resp[u].body.entries = <<entries[1]>>


\* The handler of t has built the log entry of its response.
HasEntry(t) == pc[t] \in {"lock", "append", "done"} /\ stamped[t] # NoEntry

FallbackHit(t) ==
    ~Truthy(order_arg[t]) \/ order_arg[t].value \in CatalogIds

\* C19: the status of a request's log entry is the status sent to the
\* client; for a tool request it is the status the customer API answered
\* with when it answered, 200 when the sample data had the answer and 404
\* when it had not, and the entry's metadata names the source that was used.
C19_EntryMatchesResponse ==
    \A t \in Threads :
        HasEntry(t) =>
            /\ resp[t].kind = "sent"
            /\ stamped[t].status = resp[t].status
            /\ stamped[t].method = req[t].method
            /\ pc[t] = "done" => Logged(t)
            /\ (IsToolRequest(req[t]) /\ calls[t] = 1) =>
                   /\ cond[t] \in Replying =>
                          /\ stamped[t].status = UpstreamReply(cond[t], order_arg[t], 0).status
                          /\ stamped[t].metadata.source = "customer-api"
                          /\ lookups[t] = 0
                   /\ cond[t] \in NotConnecting =>
                          /\ stamped[t].status = IF FallbackHit(t) THEN HTTP_OK ELSE HTTP_NOT_FOUND
                          /\ stamped[t].metadata.source = "sample-data"
                          /\ lookups[t] = 1
                   /\ cond[t] \in Replying \cup NotConnecting
                   /\ IsSuccessEnvelope(resp[t].body) =>
                          resp[t].body.metadata = stamped[t].metadata

C19_Witness ==
    \E t \in Threads :
        /\ pc[t] = "done" /\ IsToolRequest(req[t]) /\ cond[t] = "error_json"
        /\ HasEntry(t) /\ Logged(t)
        /\ stamped[t].status = 503 /\ resp[t].status = 503
        /\ stamped[t].metadata.source = "customer-api"


\* C20: a request calls the customer API at most once, and the sample data
\* is consulted only after that one call has ended without a connection:
\* not before the call has ended, and not when the customer API answered.
C20_OneAttemptThenFallback ==
    \A t \in Threads :
        /\ calls[t] <= 1 /\ lookups[t] <= 1
        /\ pc[t] = "waiting" => (calls[t] = 1 /\ lookups[t] = 0 /\ cond[t] = "none")
        /\ lookups[t] = 1 =>
               /\ calls[t] = 1
               /\ pc[t] # "waiting"
               /\ cond[t] \in NotConnecting
        /\ cond[t] \in Replying => lookups[t] = 0
        /\ ~IsToolRequest(req[t]) => (calls[t] = 0 /\ lookups[t] = 0)

C20_Witness ==
    \E t \in Threads :
        /\ pc[t] = "done" /\ IsToolRequest(req[t])
        /\ cond[t] = "connect_timeout"
        /\ calls[t] = 1 /\ lookups[t] = 1
        /\ resp[t].kind = "sent" /\ resp[t].status = HTTP_OK


\* The handler of t is at work and is not waiting on the customer API.
Running(t) == pc[t] \notin {"idle", "waiting", "done"}

\* C21: the log's lock is held only for one append or one copy, never while
\* a handler waits on the customer API; whatever other handlers are stalled
\* on the customer API, a handler that is not waiting on it runs to its end,
\* so that no interleaving leaves handlers blocked on the log.
C21_StallAffectsOnlyWaiters ==
    /\ [](\A t \in Threads :
             /\ lock = t => pc[t] \in {"copying", "append"}
             /\ pc[t] \in {"copying", "append"} => lock = t
             /\ pc[t] = "waiting" => lock # t)
    /\ [](lock \in Threads \cup {0})
    /\ \A t \in Threads : Running(t) ~> (pc[t] = "done")

C21_Witness ==
    \E t, u \in Threads :
        /\ pc[t] = "waiting" /\ IsToolRequest(req[t])
        /\ pc[u] = "done" /\ req[u].path = "/mcp/logs"
        /\ resp[u].kind = "sent" /\ resp[u].status = HTTP_OK
        /\ recorded[u] = 1 /\ lock = 0


\* The request gives an order_id that is the empty string.
EmptyOrderId(r) ==
    \/ r.method = "GET" /\ r.path = TOOL_PATH /\ r.query = "order_id="
    \/ r.method = "POST" /\ r.path = TOOL_PATH /\ r.content_length = "length"
           /\ r.body = ObjectBody("")

\* What _handle_orders makes of a request without order_id under the
\* condition c of the customer API, at some second up to now.
AnswersToAbsent(c) ==
    {handle_orders(fetch_orders(PyNone, c, now)) : now \in 0..clock}

\* C22: a tool request whose order_id is the empty string is handled as one
\* without order_id: it is not rejected, the customer API is asked for the
\* listing, the answer is the one a request without order_id gets, and with
\* the customer API unreachable it is 200 with the whole sample catalog.
C22_EmptyOrderIdIsAbsent ==
    \A t \in Threads :
        (EmptyOrderId(req[t]) /\ ~BadKey(req[t]) /\ pc[t] # "idle") =>
            /\ calls[t] = 1
            /\ ~Truthy(order_arg[t])
            /\ Url(order_arg[t]) = CUSTOMER_API_BASE \o "/api/orders"
            /\ (Answered(t) /\ resp[t].kind = "sent") =>
                   /\ resp[t].status # HTTP_BAD_REQUEST
                   /\ \E a \in AnswersToAbsent(cond[t]) :
                          a.next = "send" /\ resp[t] = Sent(a.status, a.payload)
                   /\ stamped[t] # NoEntry =>
                          stamped[t].metadata.url = CUSTOMER_API_BASE \o "/api/orders"
            /\ (Answered(t) /\ cond[t] = "healthy") =>
                   /\ resp[t].status = HTTP_OK
                   /\ resp[t].body.data.orders = UPSTREAM_ORDERS
            /\ (Answered(t) /\ Unreachable(t)) =>
                   /\ resp[t].kind = "sent" /\ resp[t].status = HTTP_OK
                   /\ IsSuccessEnvelope(resp[t].body)
                   /\ resp[t].body.data.orders = SAMPLE_ORDERS
                   /\ lookups[t] = 1

C22_Witness ==
    \E t \in Threads :
        /\ pc[t] = "done" /\ req[t].method = "POST"
        /\ req[t].body = "{\"order_id\": \"\"}"
        /\ order_arg[t] = PyStr("")
        /\ cond[t] = "refused"
        /\ resp[t].status = HTTP_OK /\ resp[t].body.data.orders = SAMPLE_ORDERS

====
